---- MODULE Spec2Model ----
(***************************************************************************)
(* Library management business logic (services/library_service.py):       *)
(* catalog entry, borrowing, returns, late fees, payment of late fees.    *)
(*                                                                         *)
(* Strings are sequences of one-character strings, so that strip(),       *)
(* len() and isdigit() are computed and not assumed.  Dates are day       *)
(* numbers.  Money is kept in mills (1/1000 of a dollar) inside the fee   *)
(* computation, so that quantize(0.01, ROUND_HALF_UP) does real work, and *)
(* in cents in the results.                                               *)
(***************************************************************************)
EXTENDS Integers, Sequences, FiniteSets, TLC

VARIABLES books, borrow_records, now, res, store_failed

vars == <<books, borrow_records, now, res, store_failed>>

----------------------------------------------------------------------------
(* Bounds of the model *)

\* cap on the number of rows of the borrow_records table (specification Spec)
MaxRecords == 2

\* cap on the number of rows of the borrow_records table (specification SpecFaulty)
MaxFaultyRecords == 2

\* last day the clock may reach
MaxNow == 15

\* cap on the number of rows of the borrow_records table (specification SpecLimit)
MaxLoans == 7

\* largest overdue span explored by the fee schedule specification
MaxFeeDays == 45

\* cap on the number of rows of the borrow_records table (specification SpecFee)
MaxFeeRecords == 2

\* cap on the number of rows of the borrow_records table (specification SpecPatron)
MaxPatronRecords == 1

----------------------------------------------------------------------------
(* Strings *)

Str(n, c) == [i \in 1..n |-> c]

Digits == {"0", "1", "2", "3", "4", "5", "6", "7", "8", "9"}

\* str.isdigit(): non-empty and every character a digit
IsDigit(s) == Len(s) > 0 /\ \A i \in 1..Len(s) : s[i] \in Digits

\* index of the first character from i on that is not a space (Len(s) + 1 if none)
RECURSIVE FirstNonSpace(_, _)
FirstNonSpace(s, i) ==
    IF i > Len(s) \/ s[i] # " " THEN i ELSE FirstNonSpace(s, i + 1)

\* index of the last character up to i that is not a space (0 if none)
RECURSIVE LastNonSpace(_, _)
LastNonSpace(s, i) ==
    IF i < 1 \/ s[i] # " " THEN i ELSE LastNonSpace(s, i - 1)

\* str.strip()
Strip(s) == SubSeq(s, FirstNonSpace(s, 1), LastNonSpace(s, Len(s)))

----------------------------------------------------------------------------
(* Program constants *)

MAX_TITLE_LEN == 200
MAX_AUTHOR_LEN == 100
ISBN_LEN == 13
PATRON_ID_LEN == 6
LOAN_DAYS == 14

\* return_date of an active loan (SQL NULL)
NULL == -1

\* the value get_book_by_id / get_book_by_isbn return for a missing book
None == [id |-> 0, title |-> <<>>, author |-> <<>>, isbn |-> <<>>,
         total_copies |-> 0, available_copies |-> 0]

----------------------------------------------------------------------------
(* Persistence accessors (database.py) *)

get_book_by_id(book_id) ==
    IF book_id \in 1..Len(books) THEN books[book_id] ELSE None

get_book_by_isbn(isbn) ==
    IF \E i \in 1..Len(books) : books[i].isbn = isbn
    THEN books[CHOOSE i \in 1..Len(books) : books[i].isbn = isbn]
    ELSE None

insert_book(title, author, isbn, total_copies, available_copies) ==
    Append(books, [id |-> Len(books) + 1, title |-> title, author |-> author,
                   isbn |-> isbn, total_copies |-> total_copies,
                   available_copies |-> available_copies])

update_book_availability(book_id, delta) ==
    [books EXCEPT ![book_id].available_copies = @ + delta]

IsActive(r) == r.return_date = NULL

\* active loans of a patron, in insertion order
get_patron_borrowed_books(patron_id) ==
    SelectSeq(borrow_records, LAMBDA r : r.patron_id = patron_id /\ IsActive(r))

get_patron_borrow_count(patron_id) == Len(get_patron_borrowed_books(patron_id))

insert_borrow_record(patron_id, book_id, borrow_date, due_date) ==
    Append(borrow_records, [patron_id |-> patron_id, book_id |-> book_id,
                            borrow_date |-> borrow_date, due_date |-> due_date,
                            return_date |-> NULL])

Matches(r, patron_id, book_id) ==
    r.patron_id = patron_id /\ r.book_id = book_id /\ IsActive(r)

\* whether the UPDATE finds an active row for (patron_id, book_id)
HasActiveLoan(patron_id, book_id) ==
    \E i \in 1..Len(borrow_records) : Matches(borrow_records[i], patron_id, book_id)

update_borrow_record_return_date(patron_id, book_id, return_date) ==
    [i \in 1..Len(borrow_records) |->
        IF Matches(borrow_records[i], patron_id, book_id)
        THEN [borrow_records[i] EXCEPT !.return_date = return_date]
        ELSE borrow_records[i]]

----------------------------------------------------------------------------
(* Results of the service functions *)

\* an Optional[str]: None, or a string
NoTxn == [some |-> FALSE, val |-> <<>>]
Txn(s) == [some |-> TRUE, val |-> s]

\* the record every operation leaves in res; each operation fills its fields
NoResult ==
    [op |-> "none", patron_id |-> <<>>, book_id |-> 0,
     title |-> <<>>, author |-> <<>>, isbn |-> <<>>,
     total_copies |-> [is_int |-> TRUE, val |-> 0],
     ok |-> FALSE, msg |-> "", txn |-> [some |-> FALSE, val |-> <<>>],
     fee_amount |-> 0, days_overdue |-> 0, status |-> "", due_date |-> 0,
     seen_available |-> 0, store_calls |-> 0, store_error |-> FALSE,
     fee_present |-> TRUE, book_found |-> FALSE,
     gateway_calls |-> 0, gateway_amount |-> 0, gateway_desc |-> <<>>,
     gateway_outcome |-> "none", raised |-> FALSE, amount |-> 0,
     gateway_txn |-> [some |-> FALSE, val |-> <<>>], gateway_patron |-> <<>>,
     insert_ok |-> TRUE, update_ok |-> TRUE,
     borrowed_count |-> 0, remaining_allowance |-> 0, overdue_count |-> 0,
     next_due_date |-> [some |-> FALSE, val |-> 0], borrowed_books |-> <<>>,
     search_term |-> [is_str |-> TRUE, val |-> <<>>],
     search_type |-> [is_str |-> TRUE, val |-> <<>>], results |-> <<>>]

----------------------------------------------------------------------------
(* Validation helpers *)

\* the validation without its isdigit test
InvalidPatronId_Mut(patron_id) == Len(patron_id) # PATRON_ID_LEN

\* not patron_id or not patron_id.isdigit() or len(patron_id) != 6
InvalidPatronId(patron_id) ==
    Len(patron_id) = 0 \/ ~IsDigit(patron_id) \/ Len(patron_id) # PATRON_ID_LEN

\* not title or not title.strip()
IsBlank(s) == Len(s) = 0 \/ Len(Strip(s)) = 0

\* not isinstance(total_copies, int) or total_copies <= 0
BadTotalCopies(total_copies) == ~total_copies.is_int \/ total_copies.val <= 0

----------------------------------------------------------------------------
(* R1: add_book_to_catalog *)

\* a book inserted with one copy already out
InitialAvailable_Mut(total_copies) == total_copies - 1

\* the available_copies argument of insert_book
InitialAvailable(total_copies) == total_copies

\* the duplicate check skipped
IsbnTaken_Mut(existing) == FALSE

\* if existing
IsbnTaken(existing) == existing # None

AddBookFail(r, msg, calls) ==
    /\ res' = [r EXCEPT !.ok = FALSE, !.msg = msg, !.store_calls = calls]
    /\ UNCHANGED <<books, store_failed>>

add_book_to_catalog(title, author, isbn, total_copies, insert_ok) ==
    LET r == [NoResult EXCEPT !.op = "add_book", !.title = title, !.author = author,
                              !.isbn = isbn, !.total_copies = total_copies]
    IN /\ UNCHANGED <<borrow_records, now>>
       /\ IF IsBlank(title)
          THEN AddBookFail(r, "Title is required.", 0)
          ELSE IF Len(Strip(title)) > MAX_TITLE_LEN
          THEN AddBookFail(r, "Title must be less than 200 characters.", 0)
          ELSE IF IsBlank(author)
          THEN AddBookFail(r, "Author is required.", 0)
          ELSE IF Len(Strip(author)) > MAX_AUTHOR_LEN
          THEN AddBookFail(r, "Author must be less than 100 characters.", 0)
          ELSE IF Len(isbn) # ISBN_LEN
          THEN AddBookFail(r, "ISBN must be exactly 13 digits.", 0)
          ELSE IF BadTotalCopies(total_copies)
          THEN AddBookFail(r, "Total copies must be a positive integer.", 0)
          ELSE IF IsbnTaken(get_book_by_isbn(isbn))
          THEN AddBookFail(r, "A book with this ISBN already exists.", 1)
          ELSE IF insert_ok
          THEN /\ books' = insert_book(Strip(title), Strip(author), isbn,
                                       total_copies.val,
                                       InitialAvailable(total_copies.val))
               /\ res' = [r EXCEPT !.ok = TRUE, !.store_calls = 2,
                            !.msg = "Book has been successfully added to the catalog."]
               /\ UNCHANGED store_failed
          ELSE /\ res' = [r EXCEPT !.ok = FALSE, !.store_calls = 2,
                            !.store_error = TRUE,
                            !.msg = "Database error occurred while adding the book."]
               /\ store_failed' = TRUE
               /\ UNCHANGED books

----------------------------------------------------------------------------
(* R5: calculate_late_fee_for_book *)

\* Decimal("0.50"), Decimal("1.00") and Decimal("15.00") in mills
FEE_FIRST_RATE == 500
FEE_REST_RATE == 1000
FEE_CAP == 15000
FEE_FIRST_DAYS == 7

Min(a, b) == IF a < b THEN a ELSE b
Max(a, b) == IF a > b THEN a ELSE b

\* Decimal.quantize(Decimal("0.01"), rounding=ROUND_HALF_UP), on mills >= 0
Quantize(mills) == ((mills + 5) \div 10) * 10

\* float(fee), expressed in cents
ToCents(mills) == mills \div 10

\* max((today - due_dt.date()).days, 0)
DaysOverdue(today, due_date) == Max(today - due_date, 0)

\* the tiered fee without its cap
LateFee_Mut(days_overdue) ==
    LET first == Min(days_overdue, FEE_FIRST_DAYS) * FEE_FIRST_RATE
        rest == Max(days_overdue - FEE_FIRST_DAYS, 0) * FEE_REST_RATE
    IN ToCents(Quantize(first + rest))

\* the tiered fee with cap, in cents
LateFee(days_overdue) ==
    LET first == Min(days_overdue, FEE_FIRST_DAYS) * FEE_FIRST_RATE
        rest == Max(days_overdue - FEE_FIRST_DAYS, 0) * FEE_REST_RATE
        fee == Min(first + rest, FEE_CAP)
    IN ToCents(Quantize(fee))

FeeInfo(fee_amount, days_overdue, status) ==
    [present |-> TRUE, fee_amount |-> fee_amount, days_overdue |-> days_overdue,
     status |-> status]

\* the patron id check without the length test
FeePatronOk_Mut(patron_id) == IsDigit(patron_id)

\* isinstance(patron_id, str) and patron_id.isdigit() and len(patron_id) == 6
FeePatronOk(patron_id) == IsDigit(patron_id) /\ Len(patron_id) = PATRON_ID_LEN

\* the patron's loans of the book, the returned ones included
ActiveFor_Mut(patron_id, book_id) ==
    SelectSeq(borrow_records,
              LAMBDA r : r.patron_id = patron_id /\ r.book_id = book_id)

\* next((r for r in borrowed if r["book_id"] == book_id), None): the rows that qualify
ActiveFor(patron_id, book_id) ==
    SelectSeq(get_patron_borrowed_books(patron_id), LAMBDA r : r.book_id = book_id)

calculate_late_fee_for_book(patron_id, book_id) ==
    IF ~FeePatronOk(patron_id)
    THEN FeeInfo(0, 0, "Invalid patron ID")
    ELSE IF get_book_by_id(book_id) = None
    THEN FeeInfo(0, 0, "Book not found")
    ELSE IF Len(ActiveFor(patron_id, book_id)) = 0
    THEN FeeInfo(0, 0, "Book not currently borrowed")
    ELSE LET active == Head(ActiveFor(patron_id, book_id))
             days_overdue == DaysOverdue(now, active.due_date)
         IN FeeInfo(LateFee(days_overdue), days_overdue, "OK")

\* the accessor calls calculate_late_fee_for_book makes
FeeStoreCalls(patron_id, book_id) ==
    IF ~FeePatronOk(patron_id) THEN 0
    ELSE IF get_book_by_id(book_id) = None THEN 1
    ELSE 2

----------------------------------------------------------------------------
(* R3: borrow_book_by_patron *)

MAX_BORROW == 5

\* the availability check let through at zero copies
NotAvailable_Mut(book) == book.available_copies < 0

\* book['available_copies'] <= 0
NotAvailable(book) == book.available_copies <= 0

\* a limit that already turns away the holder of 5 loans
LimitReached_Mut(current_borrowed) == current_borrowed >= MAX_BORROW

\* current_borrowed > 5
LimitReached(current_borrowed) == current_borrowed > MAX_BORROW

\* a loan period one day short
DueDate_Mut(borrow_date) == borrow_date + LOAN_DAYS - 1

\* borrow_date + timedelta(days=14)
DueDate(borrow_date) == borrow_date + LOAN_DAYS

\* the delta of update_book_availability on borrow and on return
BorrowDelta == -1

\* a return that takes a copy instead of giving it back
ReturnDelta_Mut == BorrowDelta

ReturnDelta == 1

\* a failed availability update that is not noticed
UpdateFailed_Mut(success) == FALSE

\* if not success, after update_book_availability
UpdateFailed(success) == ~success

\* a failed insert that is not noticed
InsertFailed_Mut(success) == FALSE

\* if not success, after insert_borrow_record
InsertFailed(success) == ~success

BorrowFail(r, msg, calls) ==
    /\ res' = [r EXCEPT !.ok = FALSE, !.msg = msg, !.store_calls = calls]
    /\ UNCHANGED <<books, borrow_records, store_failed>>

borrow_book_by_patron(patron_id, book_id, insert_ok, update_ok) ==
    LET book == get_book_by_id(book_id)
        r == [NoResult EXCEPT !.op = "borrow", !.patron_id = patron_id,
                              !.book_id = book_id,
                              !.seen_available = book.available_copies]
        borrow_date == now
        due_date == DueDate(borrow_date)
    IN /\ UNCHANGED now
       /\ IF InvalidPatronId(patron_id)
          THEN BorrowFail([r EXCEPT !.seen_available = 0],
                          "Invalid patron ID. Must be exactly 6 digits.", 0)
          ELSE IF book = None
          THEN BorrowFail(r, "Book not found.", 1)
          ELSE IF NotAvailable(book)
          THEN BorrowFail(r, "This book is currently not available.", 1)
          ELSE IF LimitReached(get_patron_borrow_count(patron_id))
          THEN BorrowFail(r, "You have reached the maximum borrowing limit of 5 books.", 2)
          ELSE IF InsertFailed(insert_ok)
          THEN /\ res' = [r EXCEPT !.ok = FALSE, !.store_calls = 3,
                  !.store_error = TRUE, !.insert_ok = insert_ok,
                  !.msg = "Database error occurred while creating borrow record."]
               /\ store_failed' = TRUE
               /\ UNCHANGED <<books, borrow_records>>
          ELSE /\ borrow_records' =
                      insert_borrow_record(patron_id, book_id, borrow_date, due_date)
               /\ IF UpdateFailed(update_ok)
                  THEN /\ res' = [r EXCEPT !.ok = FALSE, !.store_calls = 4,
                          !.store_error = TRUE, !.insert_ok = insert_ok,
                          !.update_ok = update_ok,
                          !.msg = "Database error occurred while updating book availability."]
                       /\ store_failed' = TRUE
                       /\ UNCHANGED books
                  ELSE /\ books' = update_book_availability(book_id, BorrowDelta)
                       /\ res' = [r EXCEPT !.ok = TRUE, !.store_calls = 4,
                                    !.insert_ok = insert_ok,
                                    !.update_ok = update_ok,
                                    !.due_date = due_date,
                                    !.msg = "Successfully borrowed. Due date:"]
                       /\ UNCHANGED store_failed

----------------------------------------------------------------------------
(* R4: return_book_by_patron *)

\* a fee message also for a fee of 0.00
ReportsFee_Mut(fee) == fee >= 0

\* fee > 0: the message names the fee
ReportsFee(fee) == fee > 0

\* a return that goes on although no loan was closed
ReturnRejected_Mut(updated) == FALSE

\* if not updated
ReturnRejected(updated) == ~updated

return_book_by_patron(patron_id, book_id, update_ok) ==
    LET book == get_book_by_id(book_id)
        late == calculate_late_fee_for_book(patron_id, book_id)
        fee == late.fee_amount
        days == late.days_overdue
        return_date == now
        updated == HasActiveLoan(patron_id, book_id)
        calls == 1 + FeeStoreCalls(patron_id, book_id)
        r == [NoResult EXCEPT !.op = "return", !.patron_id = patron_id,
                              !.book_id = book_id,
                              !.seen_available = book.available_copies]
    IN /\ UNCHANGED now
       /\ IF book = None
          THEN /\ res' = [r EXCEPT !.ok = FALSE, !.msg = "Book not found.",
                                   !.store_calls = 1]
               /\ UNCHANGED <<books, borrow_records, store_failed>>
          ELSE IF ReturnRejected(updated)
          THEN /\ res' = [r EXCEPT !.ok = FALSE, !.store_calls = calls + 1,
                  !.msg = "This book is not currently being borrowed by this patron."]
               /\ UNCHANGED <<books, borrow_records, store_failed>>
          ELSE /\ borrow_records' =
                      update_borrow_record_return_date(patron_id, book_id, return_date)
               /\ IF UpdateFailed(update_ok)
                  THEN /\ res' = [r EXCEPT !.ok = FALSE, !.store_calls = calls + 2,
                          !.store_error = TRUE, !.update_ok = update_ok,
                          !.msg = "Database error occurred while updating book availability."]
                       /\ store_failed' = TRUE
                       /\ UNCHANGED books
                  ELSE /\ books' = update_book_availability(book_id, ReturnDelta)
                       /\ res' = [r EXCEPT !.ok = TRUE, !.store_calls = calls + 2,
                                    !.update_ok = update_ok,
                                    !.fee_amount = IF ReportsFee(fee) THEN fee ELSE 0,
                                    !.days_overdue = IF ReportsFee(fee) THEN days ELSE 0,
                                    !.msg = IF ReportsFee(fee)
                                            THEN "Return processed. Late by day(s). Fee due:"
                                            ELSE "Return processed. No late fees owed."]
                       /\ UNCHANGED store_failed

----------------------------------------------------------------------------
(* The fee calculator as an operation of its own *)

CalculateLateFee(patron_id, book_id) ==
    LET late == calculate_late_fee_for_book(patron_id, book_id)
    IN /\ res' = [NoResult EXCEPT !.op = "late_fee", !.patron_id = patron_id,
                                  !.book_id = book_id,
                                  !.ok = (late.status = "OK"),
                                  !.fee_amount = late.fee_amount,
                                  !.days_overdue = late.days_overdue,
                                  !.status = late.status,
                                  !.store_calls = FeeStoreCalls(patron_id, book_id)]
       /\ UNCHANGED <<books, borrow_records, now, store_failed>>

----------------------------------------------------------------------------
(* The clock: datetime.now() moves forward between operations *)

AdvanceClock(days) ==
    /\ now' = now + days
    /\ UNCHANGED <<books, borrow_records, res, store_failed>>

----------------------------------------------------------------------------
(* R7: get_patron_status_report *)

\* the is_overdue flag of get_patron_borrowed_books
is_overdue(item) == now > item.due_date

\* the 5 of remaining = max(0, 5 - borrowed_count)
ALLOWANCE == 5

\* the latest due date tracked instead of the earliest
Earlier_Mut(due_dt, next_due_dt) == due_dt > next_due_dt

\* due_dt < next_due_dt
Earlier(due_dt, next_due_dt) == due_dt < next_due_dt

\* max(0, 5 - int(borrowed_count or 0))
RemainingAllowance(borrowed_count) == Max(0, ALLOWANCE - borrowed_count)

\* the for loop over borrowed_books_raw, from item i on
RECURSIVE ReportLoop(_, _, _)
ReportLoop(raw, i, acc) ==
    IF i > Len(raw)
    THEN acc
    ELSE LET item == raw[i]
             due_dt == item.due_date
             over == is_overdue(item)
             days_overdue == IF over THEN Max(now - due_dt, 0) ELSE 0
             next_due_dt == IF ~acc.next_due_date.some
                               \/ Earlier(due_dt, acc.next_due_date.val)
                            THEN [some |-> TRUE, val |-> due_dt]
                            ELSE acc.next_due_date
         IN ReportLoop(raw, i + 1,
                [overdue_count |-> acc.overdue_count + (IF over THEN 1 ELSE 0),
                 next_due_date |-> next_due_dt,
                 borrowed_books |-> Append(acc.borrowed_books,
                     [book_id |-> item.book_id, borrow_date |-> item.borrow_date,
                      due_date |-> due_dt, is_overdue |-> over,
                      days_overdue |-> days_overdue])])

\* the report dict, with the number of store calls made for it
get_patron_status_report(patron_id) ==
    IF InvalidPatronId(patron_id)
    THEN [patron_id |-> patron_id, borrowed_count |-> 0,
          remaining_allowance |-> ALLOWANCE, overdue_count |-> 0,
          next_due_date |-> [some |-> FALSE, val |-> 0], borrowed_books |-> <<>>,
          status |-> "Invalid patron ID. Must be exactly 6 digits.",
          store_calls |-> 0]
    ELSE LET borrowed_books_raw == get_patron_borrowed_books(patron_id)
             borrowed_count == get_patron_borrow_count(patron_id)
             loop == ReportLoop(borrowed_books_raw, 1,
                        [overdue_count |-> 0,
                         next_due_date |-> [some |-> FALSE, val |-> 0],
                         borrowed_books |-> <<>>])
         IN [patron_id |-> patron_id, borrowed_count |-> borrowed_count,
             remaining_allowance |-> RemainingAllowance(borrowed_count),
             overdue_count |-> loop.overdue_count,
             next_due_date |-> loop.next_due_date,
             borrowed_books |-> loop.borrowed_books,
             status |-> "OK", store_calls |-> 2]

\* a call of get_patron_status_report
PatronStatusReport(patron_id) ==
    LET report == get_patron_status_report(patron_id)
    IN /\ res' = [NoResult EXCEPT !.op = "report", !.patron_id = patron_id,
                                  !.ok = (report.status = "OK"),
                                  !.status = report.status,
                                  !.borrowed_count = report.borrowed_count,
                                  !.remaining_allowance = report.remaining_allowance,
                                  !.overdue_count = report.overdue_count,
                                  !.next_due_date = report.next_due_date,
                                  !.borrowed_books = report.borrowed_books,
                                  !.store_calls = report.store_calls]
       /\ UNCHANGED <<books, borrow_records, now, store_failed>>

----------------------------------------------------------------------------
(* pay_late_fees *)

\* not fee_info or 'fee_amount' not in fee_info
FeeInfoMalformed(fee_info) == ~fee_info.present

\* a zero fee sent on to the gateway
NothingToPay_Mut(fee_amount) == fee_amount < 0

\* fee_amount <= 0
NothingToPay(fee_amount) == fee_amount <= 0

\* a denied payment that hands the gateway's transaction id on
WithheldTxn_Mut(transaction_id) == transaction_id

\* return False, f"Payment failed: {message}", None
WithheldTxn(transaction_id) == NoTxn

\* the cap charged whatever the fee
GatewayAmount_Mut(fee_amount) == ToCents(FEE_CAP)

\* amount=fee_amount
GatewayAmount(fee_amount) == fee_amount

PayFail(r, msg, calls) ==
    res' = [r EXCEPT !.ok = FALSE, !.msg = msg, !.store_calls = calls]

\* pay_late_fees, given what calculate_late_fee_for_book and get_book_by_id
\* return to it and how the gateway answers process_payment
PayLateFees(patron_id, book_id, fee_info, fee_calls, book, gw) ==
    LET fee_amount == fee_info.fee_amount
        r == [NoResult EXCEPT !.op = "pay", !.patron_id = patron_id,
                              !.book_id = book_id,
                              !.fee_present = fee_info.present,
                              !.fee_amount = fee_amount,
                              !.days_overdue = fee_info.days_overdue,
                              !.status = fee_info.status,
                              !.book_found = (book # None)]
        called == [r EXCEPT !.gateway_calls = 1,
                            !.gateway_patron = patron_id,
                            !.gateway_amount = GatewayAmount(fee_amount),
                            !.gateway_desc = book.title,
                            !.store_calls = fee_calls + 1]
    IN /\ UNCHANGED <<books, borrow_records, now, store_failed>>
       /\ IF InvalidPatronId(patron_id)
          THEN PayFail(r, "Invalid patron ID. Must be exactly 6 digits.", 0)
          ELSE IF FeeInfoMalformed(fee_info)
          THEN PayFail(r, "Unable to calculate late fees.", fee_calls)
          ELSE IF NothingToPay(fee_amount)
          THEN PayFail(r, "No late fees to pay for this book.", fee_calls)
          ELSE IF book = None
          THEN PayFail(r, "Book not found.", fee_calls + 1)
          ELSE IF gw.raises
          THEN res' = [called EXCEPT !.ok = FALSE, !.gateway_outcome = "raised",
                                     !.msg = "Payment processing error:"]
          ELSE IF gw.success
          THEN res' = [called EXCEPT !.ok = TRUE, !.gateway_outcome = "success",
                                     !.gateway_txn = gw.txn,
                                     !.msg = "Payment successful!",
                                     !.txn = gw.txn]
          ELSE res' = [called EXCEPT !.ok = FALSE, !.gateway_outcome = "denied",
                                     !.gateway_txn = gw.txn,
                                     !.msg = "Payment failed:",
                                     !.txn = WithheldTxn(gw.txn)]

pay_late_fees(patron_id, book_id, gw) ==
    PayLateFees(patron_id, book_id,
                calculate_late_fee_for_book(patron_id, book_id),
                FeeStoreCalls(patron_id, book_id),
                get_book_by_id(book_id), gw)

----------------------------------------------------------------------------
(* refund_late_fee_payment *)

\* 15.00, the maximum late fee per book, in mills
REFUND_MAX == 15000

TXN_PREFIX == <<"t", "x", "n", "_">>

\* str.startswith
StartsWith(s, prefix) ==
    Len(s) >= Len(prefix) /\ SubSeq(s, 1, Len(prefix)) = prefix

\* not transaction_id or not transaction_id.startswith("txn_")
InvalidTransactionId(transaction_id) ==
    \/ ~transaction_id.some
    \/ Len(transaction_id.val) = 0
    \/ ~StartsWith(transaction_id.val, TXN_PREFIX)

\* amount <= 0
RefundNotPositive(amount) == amount <= 0

\* a refund of exactly the maximum fee turned away
RefundTooLarge_Mut(amount) == amount >= REFUND_MAX

\* amount > 15.00
RefundTooLarge(amount) == amount > REFUND_MAX

\* refund_late_fee_payment, amount in mills; gw is how the gateway answers
\* refund_payment
refund_late_fee_payment(transaction_id, amount, gw) ==
    LET r == [NoResult EXCEPT !.op = "refund", !.txn = transaction_id,
                              !.amount = amount]
        called == [r EXCEPT !.gateway_calls = 1, !.gateway_amount = amount,
                            !.gateway_desc = transaction_id.val]
    IN /\ UNCHANGED <<books, borrow_records, now, store_failed>>
       /\ IF InvalidTransactionId(transaction_id)
          THEN res' = [r EXCEPT !.ok = FALSE, !.msg = "Invalid transaction ID."]
          ELSE IF RefundNotPositive(amount)
          THEN res' = [r EXCEPT !.ok = FALSE,
                                !.msg = "Refund amount must be greater than 0."]
          ELSE IF RefundTooLarge(amount)
          THEN res' = [r EXCEPT !.ok = FALSE,
                                !.msg = "Refund amount exceeds maximum late fee."]
          ELSE IF gw.raises
          THEN res' = [called EXCEPT !.ok = FALSE, !.gateway_outcome = "raised",
                                     !.msg = "Refund processing error:"]
          ELSE IF gw.success
          THEN res' = [called EXCEPT !.ok = TRUE, !.gateway_outcome = "success",
                                     !.msg = "gateway message"]
          ELSE res' = [called EXCEPT !.ok = FALSE, !.gateway_outcome = "denied",
                                     !.msg = "Refund failed:"]

----------------------------------------------------------------------------
(* R6: search_books_in_catalog *)

UPPER == <<"A", "B", "C", "D", "E", "F", "G", "H", "I", "J", "K", "L", "M",
           "N", "O", "P", "Q", "R", "S", "T", "U", "V", "W", "X", "Y", "Z">>

LOWER == <<"a", "b", "c", "d", "e", "f", "g", "h", "i", "j", "k", "l", "m",
           "n", "o", "p", "q", "r", "s", "t", "u", "v", "w", "x", "y", "z">>

\* the characters of the model in code-point order
ALPHABET ==
    <<" ", "-", "0", "1", "2", "3", "4", "5", "6", "7", "8", "9">>
        \o UPPER \o <<"_">> \o LOWER

Ord(c) == CHOOSE i \in 1..Len(ALPHABET) : ALPHABET[i] = c

\* str.lower() and str.casefold(), which agree on these characters
LowerChar(c) ==
    IF \E i \in 1..Len(UPPER) : UPPER[i] = c
    THEN LOWER[CHOOSE i \in 1..Len(UPPER) : UPPER[i] = c]
    ELSE c

Lower(s) == [i \in 1..Len(s) |-> LowerChar(s[i])]

Casefold(s) == Lower(s)

\* sub in s
Contains(sub, s) ==
    \E i \in 0..(Len(s) - Len(sub)) : SubSeq(s, i + 1, i + Len(sub)) = sub

\* s < t for two str
RECURSIVE StrLess(_, _)
StrLess(s, t) ==
    IF Len(t) = 0 THEN FALSE
    ELSE IF Len(s) = 0 THEN TRUE
    ELSE IF Head(s) # Head(t) THEN Ord(Head(s)) < Ord(Head(t))
    ELSE StrLess(Tail(s), Tail(t))

\* get_all_books(): the rows of the books table
get_all_books == books

\* an argument that may not be a str
StrArg(s) == [is_str |-> TRUE, val |-> s]
NotStr == [is_str |-> FALSE, val |-> <<>>]

T_TITLE == <<"t", "i", "t", "l", "e">>
T_AUTHOR == <<"a", "u", "t", "h", "o", "r">>
T_ISBN == <<"i", "s", "b", "n">>
T_ALL == <<"a", "l", "l">>

\* allowed_types
AllowedTypes == {T_TITLE, T_AUTHOR, T_ISBN, T_ALL}

\* a blank test without the strip
EmptyTerm_Mut(search_term) == ~search_term.is_str \/ Len(search_term.val) = 0

\* not isinstance(search_term, str) or not search_term.strip()
EmptyTerm(search_term) == ~search_term.is_str \/ Len(Strip(search_term.val)) = 0

\* an unknown search type taken as a title search
SearchType_Mut(search_type) ==
    LET stype == Lower(IF ~search_type.is_str \/ Len(search_type.val) = 0
                       THEN T_ALL ELSE search_type.val)
    IN IF stype \notin AllowedTypes THEN T_TITLE ELSE stype

\* stype = (search_type or "all").lower(), "all" if not in allowed_types
SearchType(search_type) ==
    LET stype == Lower(IF ~search_type.is_str \/ Len(search_type.val) = 0
                       THEN T_ALL ELSE search_type.val)
    IN IF stype \notin AllowedTypes THEN T_ALL ELSE stype

\* an ISBN normalizer that keeps the spaces
NormIsbn_Mut(s) == SelectSeq(s, LAMBDA c : c # "-")

\* _norm_isbn: s.replace("-", "").replace(" ", "")
NormIsbn(s) == SelectSeq(s, LAMBDA c : c # "-" /\ c # " ")

\* an all search that leaves the ISBN out
IsbnLoose_Mut(norm_term_isbn, isbn) == FALSE

\* norm_term_isbn and norm_term_isbn in isbn
IsbnLoose(norm_term_isbn, isbn) ==
    Len(norm_term_isbn) > 0 /\ Contains(norm_term_isbn, isbn)

\* _matches
SearchMatches(book, stype, term_fold, norm_term_isbn) ==
    LET title == Casefold(book.title)
        author == Casefold(book.author)
        isbn == NormIsbn(book.isbn)
    IN IF stype = T_TITLE THEN Contains(term_fold, title)
       ELSE IF stype = T_AUTHOR THEN Contains(term_fold, author)
       ELSE IF stype = T_ISBN THEN norm_term_isbn = isbn
       ELSE \/ Contains(term_fold, title)
            \/ Contains(term_fold, author)
            \/ IsbnLoose(norm_term_isbn, isbn)

\* the sort key of results.sort, compared as tuples
SortKeyLess(a, b) ==
    \/ StrLess(Casefold(a.title), Casefold(b.title))
    \/ /\ Casefold(a.title) = Casefold(b.title)
       /\ StrLess(Casefold(a.author), Casefold(b.author))

\* b put into a sorted list behind every entry that is not greater
RECURSIVE SortedInsert(_, _)
SortedInsert(sorted, b) ==
    IF Len(sorted) = 0 THEN <<b>>
    ELSE IF SortKeyLess(b, Head(sorted)) THEN <<b>> \o sorted
    ELSE <<Head(sorted)>> \o SortedInsert(Tail(sorted), b)

\* list.sort(key=...): stable, ascending
RECURSIVE SortByKey(_)
SortByKey(list) ==
    IF Len(list) = 0 THEN <<>>
    ELSE SortedInsert(SortByKey(SubSeq(list, 1, Len(list) - 1)), list[Len(list)])

\* the list search_books_in_catalog returns
search_books_in_catalog(search_term, search_type) ==
    IF EmptyTerm(search_term)
    THEN <<>>
    ELSE LET term == Strip(search_term.val)
             term_fold == Casefold(term)
             stype == SearchType(search_type)
             norm_term_isbn == NormIsbn(term)
             results == SelectSeq(get_all_books,
                            LAMBDA b : SearchMatches(b, stype, term_fold, norm_term_isbn))
         IN SortByKey(results)

\* the accessor calls search_books_in_catalog makes
SearchStoreCalls(search_term) == IF EmptyTerm(search_term) THEN 0 ELSE 1

\* a call of search_books_in_catalog
SearchBooks(search_term, search_type) ==
    /\ res' = [NoResult EXCEPT !.op = "search", !.ok = TRUE,
                               !.search_term = search_term,
                               !.search_type = search_type,
                               !.results = search_books_in_catalog(search_term,
                                                                   search_type),
                               !.store_calls = SearchStoreCalls(search_term)]
    /\ UNCHANGED <<books, borrow_records, now, store_failed>>

----------------------------------------------------------------------------
(* Inputs *)



PATRON_A == <<"1", "2", "3", "4", "5", "6">>
PATRON_B == <<"6", "5", "4", "3", "2", "1">>
PATRON_ALPHA == <<"1", "2", "A", "4", "5", "6">>
PATRON_SHORT == <<"1", "2", "3", "4", "5">>

ValidPatrons == {PATRON_A, PATRON_B}
Patrons == ValidPatrons \cup {PATRON_ALPHA}

ISBN_1 == Str(13, "1")
ISBN_2 == Str(13, "2")
ISBN_SHORT == Str(3, "1")
ISBN_LONG == Str(14, "1")

TITLE_1 == <<"B", "o", "o", "k">>
AUTHOR_1 == <<"A", "u", "t", "h">>

IntArg(n) == [is_int |-> TRUE, val |-> n]
NotInt == [is_int |-> FALSE, val |-> 0]

\* book ids the callers pass: with two ISBNs, id 2 exists only after a second insert
BookIds == 1..2

\* the clock moves past a full loan period
ClockJumps == {LOAN_DAYS + 1}

GatewayOutcomes ==
    {[raises |-> FALSE, success |-> TRUE,
      txn |-> [some |-> TRUE, val |-> <<"t", "x", "n", "_", "1">>]],
     [raises |-> FALSE, success |-> FALSE,
      txn |-> [some |-> TRUE, val |-> <<"t", "x", "n", "_", "9">>]],
     [raises |-> FALSE, success |-> FALSE, txn |-> [some |-> FALSE, val |-> <<>>]],
     [raises |-> TRUE, success |-> FALSE, txn |-> [some |-> FALSE, val |-> <<>>]]}

----------------------------------------------------------------------------
(* Specification Spec: catalog and circulation over a store whose every    *)
(* call succeeds.                                                          *)

Init ==
    /\ books = <<>>
    /\ borrow_records = <<>>
    /\ now = 0
    /\ res = NoResult
    /\ store_failed = FALSE

AddBook ==
    \E isbn \in {ISBN_1, ISBN_2, ISBN_SHORT}, n \in {0, 2} :
        add_book_to_catalog(TITLE_1, AUTHOR_1, isbn, IntArg(n), TRUE)

Borrow ==
    \E p \in Patrons, b \in BookIds :
        /\ borrow_book_by_patron(p, b, TRUE, TRUE)
        /\ Len(borrow_records') <= MaxRecords

Return == \E p \in Patrons, b \in BookIds : return_book_by_patron(p, b, TRUE)

Tick == \E d \in ClockJumps : now + d <= MaxNow /\ AdvanceClock(d)

Next == AddBook \/ Borrow \/ Return \/ Tick

Spec == Init /\ [][Next]_vars

----------------------------------------------------------------------------
(* Specification SpecFaulty: the same operations on one day, over a store  *)
(* whose insert and update calls may report failure.                       *)

AddBookFaulty ==
    \E isbn \in {ISBN_1, ISBN_2}, n \in {0, 1}, insert_ok \in BOOLEAN :
        add_book_to_catalog(TITLE_1, AUTHOR_1, isbn, IntArg(n), insert_ok)

BorrowFaulty ==
    \E p \in Patrons, b \in BookIds, insert_ok \in BOOLEAN, update_ok \in BOOLEAN :
        /\ borrow_book_by_patron(p, b, insert_ok, update_ok)
        /\ Len(borrow_records') <= MaxFaultyRecords

ReturnFaulty ==
    \E p \in Patrons, b \in BookIds, update_ok \in BOOLEAN :
        return_book_by_patron(p, b, update_ok)

NextFaulty == AddBookFaulty \/ BorrowFaulty \/ ReturnFaulty

SpecFaulty == Init /\ [][NextFaulty]_vars

----------------------------------------------------------------------------
(* Specification SpecLimit: one patron borrowing up to and past the limit  *)

AddBookLimit ==
    \E isbn \in {ISBN_1, ISBN_2} :
        add_book_to_catalog(TITLE_1, AUTHOR_1, isbn, IntArg(MaxLoans), TRUE)

BorrowLimit ==
    \E b \in BookIds :
        /\ borrow_book_by_patron(PATRON_A, b, TRUE, TRUE)
        /\ Len(borrow_records') <= MaxLoans

ReturnLimit == \E b \in BookIds : return_book_by_patron(PATRON_A, b, TRUE)

NextLimit == AddBookLimit \/ BorrowLimit \/ ReturnLimit

SpecLimit == Init /\ [][NextLimit]_vars

----------------------------------------------------------------------------
(* Specification SpecCatalog: add_book_to_catalog over its input classes   *)

CatalogTitles ==
    {<<>>, Str(2, " "), TITLE_1,
     <<" ">> \o Str(MAX_TITLE_LEN, "a") \o <<" ">>, Str(MAX_TITLE_LEN + 1, "a")}

CatalogAuthors ==
    {<<>>, <<" ">> \o Str(MAX_AUTHOR_LEN, "b"), Str(MAX_AUTHOR_LEN + 1, "b")}

ISBN_ALPHA == Str(13, "x")

CatalogIsbns == {ISBN_1, ISBN_ALPHA, ISBN_SHORT, ISBN_LONG}

CatalogCopies == {IntArg(0), IntArg(3), NotInt}

AddBookCatalog ==
    \E title \in CatalogTitles, author \in CatalogAuthors, isbn \in CatalogIsbns,
       total_copies \in CatalogCopies, insert_ok \in BOOLEAN :
        add_book_to_catalog(title, author, isbn, total_copies, insert_ok)

NextCatalog == AddBookCatalog

SpecCatalog == Init /\ [][NextCatalog]_vars

----------------------------------------------------------------------------
(* Specification SpecFee: late fees of a loan taken on day 0, asked for on *)
(* any later day.                                                          *)

PATRON_LONG == <<"1", "2", "3", "4", "5", "6", "7">>
PATRON_EMPTY == <<>>

FeePatrons == Patrons \cup {PATRON_SHORT, PATRON_LONG, PATRON_EMPTY}

\* the state after add_book_to_catalog and one borrow by PATRON_A on day 0,
\* with the clock moved on
InitFee ==
    /\ books = <<[id |-> 1, title |-> TITLE_1, author |-> AUTHOR_1, isbn |-> ISBN_1,
                  total_copies |-> 2, available_copies |-> 1]>>
    /\ borrow_records = <<[patron_id |-> PATRON_A, book_id |-> 1, borrow_date |-> 0,
                           due_date |-> LOAN_DAYS, return_date |-> NULL]>>
    /\ now \in 0..(LOAN_DAYS + MaxFeeDays)
    /\ res = NoResult
    /\ store_failed = FALSE

LateFeeQuery == \E p \in FeePatrons, b \in BookIds : CalculateLateFee(p, b)

BorrowFee ==
    \E p \in ValidPatrons :
        /\ borrow_book_by_patron(p, 1, TRUE, TRUE)
        /\ Len(borrow_records') <= MaxFeeRecords

ReturnFee == \E p \in ValidPatrons : return_book_by_patron(p, 1, TRUE)

PayFee ==
    \E p \in Patrons, b \in BookIds, gw \in GatewayOutcomes : pay_late_fees(p, b, gw)

NextFee == LateFeeQuery \/ BorrowFee \/ ReturnFee \/ PayFee

SpecFee == InitFee /\ [][NextFee]_vars

----------------------------------------------------------------------------
(* Specification SpecPay: pay_late_fees, also with the fee calculator and  *)
(* the book lookup replaced by doubles, as its unit tests do               *)

NoFeeInfo == [present |-> FALSE, fee_amount |-> 0, days_overdue |-> 0, status |-> ""]

StubFeeInfos ==
    {NoFeeInfo, FeeInfo(0, 0, "OK"), FeeInfo(0 - 50, 0, "OK"), FeeInfo(500, 3, "OK")}

PayStubbed ==
    \E p \in Patrons, fee_info \in StubFeeInfos, book \in {None, books[1]},
       gw \in GatewayOutcomes :
        PayLateFees(p, 1, fee_info, 0, book, gw)

NextPay == PayFee \/ PayStubbed

SpecPay == InitFee /\ [][NextPay]_vars

----------------------------------------------------------------------------
(* Specification SpecRefund: refund_late_fee_payment over its input classes *)

RefundTxns ==
    {NoTxn, Txn(<<>>), Txn(TXN_PREFIX), Txn(TXN_PREFIX \o <<"1">>),
     Txn(TXN_PREFIX \o <<"1", "2", "3">>),
     Txn(<<"i", "n", "v", "a", "l", "i", "d", "_", "t", "x", "n">>),
     Txn(<<"T", "X", "N", "_", "1">>), Txn(<<"t", "x", "n">>),
     Txn(<<"x">> \o TXN_PREFIX \o <<"1">>)}

\* refund amounts in mills, on both sides of 0 and of 15.00
RefundAmounts == {0 - 5000, 0 - 1, 0, 1, 10, 5000, REFUND_MAX - 1, REFUND_MAX,
                  REFUND_MAX + 1, REFUND_MAX + 5000}

\* refund_payment returns (True, message), returns (False, message) or raises
RefundOutcomes ==
    {[raises |-> FALSE, success |-> TRUE], [raises |-> FALSE, success |-> FALSE],
     [raises |-> TRUE, success |-> FALSE]}

Refund ==
    \E transaction_id \in RefundTxns, amount \in RefundAmounts, gw \in RefundOutcomes :
        refund_late_fee_payment(transaction_id, amount, gw)

NextRefund == Refund

SpecRefund == Init /\ [][NextRefund]_vars

----------------------------------------------------------------------------
(* Specification SpecPatron: every patron-facing operation, over a store   *)
(* whose every call succeeds                                               *)

BorrowPatron ==
    \E p \in Patrons, b \in BookIds :
        /\ borrow_book_by_patron(p, b, TRUE, TRUE)
        /\ Len(borrow_records') <= MaxPatronRecords

Report == \E p \in Patrons : PatronStatusReport(p)

FeeQuery == \E p \in Patrons, b \in BookIds : CalculateLateFee(p, b)

Pay == \E p \in Patrons, b \in BookIds, gw \in GatewayOutcomes : pay_late_fees(p, b, gw)

NextPatron == AddBook \/ BorrowPatron \/ Return \/ Tick \/ Report \/ FeeQuery \/ Pay

SpecPatron == Init /\ [][NextPatron]_vars

----------------------------------------------------------------------------
(* Specification SpecReport: the status report between borrows, returns    *)
(* and days passing                                                        *)

NextReport == AddBook \/ Borrow \/ Return \/ Tick \/ Report

SpecReport == Init /\ [][NextReport]_vars

----------------------------------------------------------------------------
(* Specification SpecAllowance: one patron's report while the patron       *)
(* borrows copy after copy of one book                                     *)

AddBookAllowance ==
    add_book_to_catalog(TITLE_1, AUTHOR_1, ISBN_1, IntArg(MaxLoans), TRUE)

ReportAllowance == \E p \in {PATRON_A, PATRON_ALPHA} : PatronStatusReport(p)

NextAllowance == AddBookAllowance \/ BorrowLimit \/ ReturnLimit \/ ReportAllowance

SpecAllowance == Init /\ [][NextAllowance]_vars

----------------------------------------------------------------------------
(* Specification SpecSearch: searches of a growing catalog                 *)

\* two 13-character ISBNs that differ from each other only in separators
ISBN_HYPHEN == <<"1", "-", "1">> \o Str(10, "1")
ISBN_SPACE == <<"1", "1", " ">> \o Str(10, "1")

\* a 13-character ISBN of separators only
ISBN_DASHES == Str(13, "-")

\* the books added: title, author, ISBN
SearchBookArgs ==
    {<<TITLE_1, AUTHOR_1, ISBN_1>>,
     <<<<"a", "b">>, <<"B", "o">>, ISBN_HYPHEN>>,
     <<TITLE_1, <<"B", "o">>, ISBN_SPACE>>,
     <<<<"b", "O", "O", "K">>, AUTHOR_1, ISBN_DASHES>>}

SearchTerms ==
    {NotStr, StrArg(<<>>), StrArg(Str(3, " ")),
     StrArg(<<"b", "o", "o", "k">>),
     StrArg(<<" ">> \o AUTHOR_1 \o <<" ">>),
     StrArg(<<"b", "o">>),
     StrArg(Str(4, "1") \o <<"-">> \o Str(3, "1") \o <<"-">> \o Str(3, "1")
                \o <<"-">> \o Str(3, "1")),
     StrArg(ISBN_HYPHEN),
     StrArg(Str(3, "1")),
     StrArg(<<"-">>)}

SearchTypes ==
    {StrArg(T_TITLE), StrArg(T_AUTHOR), StrArg(T_ISBN), StrArg(T_ALL),
     StrArg(<<"T", "I", "T", "L", "E">>), StrArg(<<"I", "s", "b", "n">>),
     StrArg(<<"s", "o", "m", "e", "t", "h", "i", "n", "g", "_", "e", "l", "s", "e">>),
     StrArg(<<>>), NotStr}

AddBookSearch ==
    \E args \in SearchBookArgs :
        add_book_to_catalog(args[1], args[2], args[3], IntArg(1), TRUE)

Search ==
    \E search_term \in SearchTerms, search_type \in SearchTypes :
        SearchBooks(search_term, search_type)

NextSearch == AddBookSearch \/ Search

SpecSearch == Init /\ [][NextSearch]_vars

----------------------------------------------------------------------------
(* Claims *)

BookIndexes == 1..Len(books)

RecordIndexes == 1..Len(borrow_records)

ActiveLoansOf(patron_id) ==
    Cardinality({i \in RecordIndexes :
                    /\ borrow_records[i].patron_id = patron_id
                    /\ borrow_records[i].return_date = NULL})

\* C2: no patron ever holds more than 5 active loans, and a borrow by a patron
\* who holds 5 fails with the maximum-limit message.
C2_AtMostFiveActiveLoans ==
    /\ \A p \in ValidPatrons : ActiveLoansOf(p) <= 5
    /\ (res.op = "borrow" /\ res.ok) => ActiveLoansOf(res.patron_id) <= 5

\* C3: a successful borrow followed by a successful return by the same patron on
\* the same book leaves available_copies at its value before the borrow.
C3_BorrowThenReturnRestoresAvailability ==
    [][(/\ res.op = "borrow" /\ res.ok
        /\ res'.op = "return" /\ res'.ok
        /\ res'.patron_id = res.patron_id
        /\ res'.book_id = res.book_id)
       => books'[res.book_id].available_copies = res.seen_available]_vars

\* a return has succeeded and put back the copy its patron had taken
C3_Witness ==
    /\ res.op = "return" /\ res.ok
    /\ books[res.book_id].available_copies = res.seen_available + 1
    /\ books[res.book_id].available_copies = books[res.book_id].total_copies

\* an active loan of book_id by patron_id is on record
OnLoanTo(patron_id, book_id) ==
    \E i \in RecordIndexes :
        /\ borrow_records[i].patron_id = patron_id
        /\ borrow_records[i].book_id = book_id
        /\ borrow_records[i].return_date = NULL

\* C4: a return of an existing book by a patron with no active loan of it fails
\* with "not currently being borrowed by this patron" and changes neither
\* available_copies nor any borrow record.
C4_ReturnWithoutLoanFailsUnchanged ==
    [][(/\ now' = now
        /\ res'.op = "return"
        /\ res'.book_id \in BookIndexes
        /\ ~OnLoanTo(res'.patron_id, res'.book_id))
       => /\ ~res'.ok
          /\ res'.msg = "This book is not currently being borrowed by this patron."
          /\ books' = books
          /\ borrow_records' = borrow_records]_vars

\* a valid patron's return was refused while another patron holds the book
C4_Witness ==
    /\ res.op = "return" /\ ~res.ok
    /\ res.msg = "This book is not currently being borrowed by this patron."
    /\ res.patron_id \in ValidPatrons
    /\ \E p \in ValidPatrons \ {res.patron_id} : OnLoanTo(p, res.book_id)

\* C5: a successful borrow takes one available copy of the borrowed book and adds
\* one active record for (patron, book) due 14 days after the borrow date;
\* total_copies, the other books and the other records stay as they were.
C5_BorrowEffect ==
    [][(now' = now /\ res'.op = "borrow" /\ res'.ok)
       => /\ books' = [books EXCEPT ![res'.book_id].available_copies = @ - 1]
          /\ borrow_records' =
                 Append(borrow_records,
                        [patron_id |-> res'.patron_id, book_id |-> res'.book_id,
                         borrow_date |-> now, due_date |-> now + 14,
                         return_date |-> NULL])]_vars

\* a borrow on a later day, with another book and another record in the store
C5_Witness ==
    /\ res.op = "borrow" /\ res.ok
    /\ now > 0
    /\ Len(books) = 2
    /\ Len(borrow_records) = 2
    /\ borrow_records[2].due_date = now + 14
    /\ borrow_records[1].book_id # borrow_records[2].book_id

\* the arguments C6 calls valid
C6_ValidArguments(r) ==
    /\ Len(Strip(r.title)) \in 1..200
    /\ Len(Strip(r.author)) \in 1..100
    /\ Len(r.isbn) = 13
    /\ r.total_copies.is_int /\ r.total_copies.val > 0

IsbnInCatalog(isbn) == \E i \in BookIndexes : books[i].isbn = isbn

C6_StoredBook(r) ==
    [id |-> Len(books) + 1, title |-> Strip(r.title), author |-> Strip(r.author),
     isbn |-> r.isbn, total_copies |-> r.total_copies.val,
     available_copies |-> r.total_copies.val]

\* C6 as stated: add_book_to_catalog with valid arguments and an ISBN not yet
\* in the catalog succeeds, and the stored book has
\* available_copies = total_copies = the argument.
C6_ValidAddAlwaysSucceeds ==
    [][(/\ res'.op = "add_book"
        /\ C6_ValidArguments(res')
        /\ ~IsbnInCatalog(res'.isbn))
       => /\ res'.ok
          /\ books' = Append(books, C6_StoredBook(res'))]_vars

\* C6 as amended: such a call succeeds exactly when insert_book reports success,
\* and then stores the book with available_copies = total_copies = the argument;
\* when insert_book reports failure it fails with the database-error message
\* and the catalog is unchanged.
C6_ValidAddSucceedsUnlessInsertFails ==
    [][(/\ res'.op = "add_book"
        /\ C6_ValidArguments(res')
        /\ ~IsbnInCatalog(res'.isbn))
       => /\ res'.ok = ~res'.store_error
          /\ res'.ok => books' = Append(books, C6_StoredBook(res'))
          /\ ~res'.ok => /\ books' = books
                         /\ res'.msg = "Database error occurred while adding the book."
      ]_vars

\* a second book was added from a padded 200-character title
C6_Witness ==
    /\ res.op = "add_book" /\ res.ok
    /\ Len(res.title) > 200
    /\ Len(books) = 2
    /\ books[2].available_copies = 3 /\ books[2].total_copies = 3

NoSharedIsbn ==
    \A i, j \in BookIndexes : books[i].isbn = books[j].isbn => i = j

\* C7 as stated: add_book_to_catalog with an ISBN already in the catalog fails
\* with the "already exists" message and leaves the store unchanged, and no
\* two books ever share an ISBN.
C7_DuplicateIsbnAlwaysAlreadyExists ==
    /\ [][(res'.op = "add_book" /\ IsbnInCatalog(res'.isbn))
          => /\ ~res'.ok
             /\ res'.msg = "A book with this ISBN already exists."
             /\ books' = books]_vars
    /\ []NoSharedIsbn

\* C7 as amended: such a call always fails and leaves the store unchanged, with
\* the "already exists" message when title, author and total_copies are valid
\* and with the message of the first invalid field otherwise; no two books ever
\* share an ISBN.
C7_DuplicateIsbnRejected ==
    /\ [][(res'.op = "add_book" /\ IsbnInCatalog(res'.isbn))
          => /\ ~res'.ok
             /\ books' = books
             /\ borrow_records' = borrow_records
             /\ IF C6_ValidArguments(res')
                THEN res'.msg = "A book with this ISBN already exists."
                ELSE res'.msg \in {"Title is required.",
                                   "Title must be less than 200 characters.",
                                   "Author is required.",
                                   "Author must be less than 100 characters.",
                                   "Total copies must be a positive integer."}]_vars
    /\ []NoSharedIsbn

\* a duplicate was refused with two books in the catalog
C7_Witness ==
    /\ res.op = "add_book" /\ ~res.ok
    /\ res.msg = "A book with this ISBN already exists."
    /\ Len(books) = 2
    /\ IsbnInCatalog(res.isbn)

\* exactly 6 digits
SixDigits(patron_id) ==
    Len(patron_id) = 6 /\ \A i \in 1..6 : patron_id[i] \in Digits

\* the loan calculate_late_fee_for_book prices: the patron's first active loan
\* of the book
PricedLoan(patron_id, book_id) ==
    borrow_records[CHOOSE i \in RecordIndexes :
        /\ borrow_records[i].patron_id = patron_id
        /\ borrow_records[i].book_id = book_id
        /\ borrow_records[i].return_date = NULL
        /\ \A j \in 1..(i - 1) :
               ~(/\ borrow_records[j].patron_id = patron_id
                 /\ borrow_records[j].book_id = book_id
                 /\ borrow_records[j].return_date = NULL)]

\* the fee schedule in cents: 0.50 a day for 7 days, 1.00 a day after, 15.00 at most
ScheduleFee(d) ==
    IF d <= 7 THEN 50 * d
    ELSE IF 350 + 100 * (d - 7) <= 1500 THEN 350 + 100 * (d - 7)
    ELSE 1500

\* C8: for an active loan d >= 0 days past due (dates only) the calculator
\* returns status OK, days_overdue = d and the scheduled fee, which is 0.00,
\* 1.50, 3.50, 4.50, 15.00 and 15.00 for d = 0, 3, 7, 8, 20 and 40 and never
\* more than 15.00.
C8_FeeSchedule ==
    (/\ res.op = "late_fee"
     /\ SixDigits(res.patron_id)
     /\ res.book_id \in BookIndexes
     /\ OnLoanTo(res.patron_id, res.book_id))
    => LET due == PricedLoan(res.patron_id, res.book_id).due_date
           d == IF now >= due THEN now - due ELSE 0
       IN /\ res.status = "OK"
          /\ res.days_overdue = d
          /\ res.fee_amount = ScheduleFee(d)
          /\ res.fee_amount <= 1500
          /\ d = 0 => res.fee_amount = 0
          /\ d = 3 => res.fee_amount = 150
          /\ d = 7 => res.fee_amount = 350
          /\ d = 8 => res.fee_amount = 450
          /\ d = 20 => res.fee_amount = 1500
          /\ d = 40 => res.fee_amount = 1500

\* the fee of a loan 40 days past due was asked for
C8_Witness ==
    /\ res.op = "late_fee" /\ res.status = "OK"
    /\ now = PricedLoan(res.patron_id, res.book_id).due_date + 40
    /\ res.days_overdue = 40
    /\ res.fee_amount = 1500

\* C9: the calculator checks the patron id, then the book, then the loan, and
\* answers fee 0.00 and 0 days in each error case; status is OK only for an
\* active loan.
C9_FeeErrorOrder ==
    res.op = "late_fee" =>
        IF ~SixDigits(res.patron_id)
        THEN res.status = "Invalid patron ID"
             /\ res.fee_amount = 0 /\ res.days_overdue = 0
        ELSE IF res.book_id \notin BookIndexes
        THEN res.status = "Book not found"
             /\ res.fee_amount = 0 /\ res.days_overdue = 0
        ELSE IF ~OnLoanTo(res.patron_id, res.book_id)
        THEN res.status = "Book not currently borrowed"
             /\ res.fee_amount = 0 /\ res.days_overdue = 0
        ELSE res.status = "OK"

\* a five-digit patron id asked about a book that does not exist
C9_Witness ==
    /\ res.op = "late_fee"
    /\ res.patron_id = PATRON_SHORT
    /\ res.book_id \notin BookIndexes
    /\ res.status = "Invalid patron ID"

\* C10: pay_late_fees does not call process_payment when the patron id is
\* malformed, the fee result lacks fee_amount, the fee is <= 0 or the book is
\* not found; it returns (False, message, None).
C10_NoGatewayCallWithoutFee ==
    (/\ res.op = "pay"
     /\ \/ ~SixDigits(res.patron_id)
        \/ ~res.fee_present
        \/ res.fee_amount <= 0
        \/ ~res.book_found)
    => /\ res.gateway_calls = 0
       /\ ~res.ok
       /\ ~res.txn.some
       /\ res.msg \in {"Invalid patron ID. Must be exactly 6 digits.",
                       "Unable to calculate late fees.",
                       "No late fees to pay for this book.",
                       "Book not found."}

\* a valid patron with a zero fee was turned away before the gateway
C10_Witness ==
    /\ res.op = "pay"
    /\ SixDigits(res.patron_id)
    /\ res.fee_present /\ res.fee_amount = 0 /\ res.status = "OK"
    /\ res.gateway_calls = 0
    /\ res.msg = "No late fees to pay for this book."

\* C11: refund_late_fee_payment makes no gateway call and fails with a message
\* naming a violated condition when the transaction id is empty or lacks the
\* "txn_" prefix or the amount is outside (0, 15.00]; for a prefixed id and an
\* amount in (0, 15.00] it calls refund_payment exactly once with them.
C11_TxnPrefixed(t) ==
    /\ t.some /\ Len(t.val) >= 4
    /\ t.val[1] = "t" /\ t.val[2] = "x" /\ t.val[3] = "n" /\ t.val[4] = "_"

C11_AmountInRange(a) == 0 < a /\ a <= 15000

C11_RefundGatewayGuard ==
    res.op = "refund" =>
        IF C11_TxnPrefixed(res.txn) /\ C11_AmountInRange(res.amount)
        THEN /\ res.gateway_calls = 1
             /\ res.gateway_amount = res.amount
             /\ res.gateway_desc = res.txn.val
        ELSE /\ res.gateway_calls = 0
             /\ ~res.ok
             /\ \/ res.msg = "Invalid transaction ID." /\ ~C11_TxnPrefixed(res.txn)
                \/ res.msg = "Refund amount must be greater than 0." /\ res.amount <= 0
                \/ res.msg = "Refund amount exceeds maximum late fee."
                      /\ res.amount > 15000

C11_Witness ==
    /\ res.op = "refund" /\ res.gateway_calls = 1
    /\ res.amount = 15000 /\ res.gateway_outcome = "denied"

\* C12: pay_late_fees returns a transaction id only when process_payment
\* reported success; when the gateway denies the payment, with or without a
\* transaction id of its own, or raises, the result is a failure without a
\* transaction id and nothing is raised to the caller.
C12_TxnOnlyOnGatewaySuccess ==
    res.op = "pay" =>
        /\ res.txn.some => res.gateway_outcome = "success" /\ res.ok
        /\ res.gateway_outcome \in {"denied", "raised"} =>
               ~res.ok /\ ~res.txn.some /\ ~res.raised
        /\ res.gateway_outcome = "none" => ~res.ok /\ ~res.txn.some

C12_Witness ==
    /\ res.op = "pay" /\ res.gateway_outcome = "denied"
    /\ res.gateway_txn.some /\ ~res.txn.some

C13_InvalidPatronReported ==
    \/ res.op \in {"borrow", "pay"}
          /\ res.msg = "Invalid patron ID. Must be exactly 6 digits."
    \/ res.op = "late_fee" /\ res.status = "Invalid patron ID"
    \/ res.op = "report" /\ res.status = "Invalid patron ID. Must be exactly 6 digits."

\* C13 as stated: borrow_book_by_patron, return_book_by_patron,
\* calculate_late_fee_for_book, get_patron_status_report and pay_late_fees make
\* no persistence-accessor call when the patron id is not exactly 6 digits.
C13_NoStoreCallOnMalformedPatron ==
    (/\ res.op \in {"borrow", "return", "late_fee", "report", "pay"}
     /\ ~SixDigits(res.patron_id)) =>
        res.store_calls = 0 /\ ~res.ok

\* C13 as amended: borrow, fee calculation, report and payment make no accessor
\* call for a malformed patron id and fail with the invalid-patron message;
\* return_book_by_patron does not validate the id: it reads the book and fails
\* with "Book not found." or, after the attempt to close a loan, with the
\* not-currently-borrowed message.
C13_NoStoreCallOnMalformedPatronExceptReturn ==
    ~SixDigits(res.patron_id) =>
        /\ res.op \in {"borrow", "late_fee", "report", "pay"} =>
               res.store_calls = 0 /\ ~res.ok /\ C13_InvalidPatronReported
        /\ res.op = "return" =>
               /\ ~res.ok
               /\ \/ res.msg = "Book not found." /\ res.store_calls = 1
                  \/ /\ res.store_calls = 2
                     /\ res.msg = "This book is not currently being borrowed by this patron."

C13_Witness ==
    /\ res.op = "return" /\ ~SixDigits(res.patron_id)
    /\ res.store_calls = 2 /\ Len(borrow_records) > 0

\* C14: when insert_borrow_record reports failure, borrow_book_by_patron fails
\* with the "creating borrow record" database-error message, makes no call of
\* update_book_availability after its three earlier store calls, and leaves
\* the books and the borrow records as they were.
C14_InsertFailureLeavesAvailability ==
    [][(res'.op = "borrow" /\ res'.store_calls >= 3 /\ ~res'.insert_ok) =>
          /\ ~res'.ok
          /\ res'.msg = "Database error occurred while creating borrow record."
          /\ res'.store_calls = 3
          /\ books' = books
          /\ borrow_records' = borrow_records]_vars

C14_Witness ==
    /\ res.op = "borrow" /\ ~res.insert_ok /\ res.store_calls = 3
    /\ books[res.book_id].available_copies = res.seen_available
    /\ res.seen_available > 0

\* C15: a successful return names a late fee, with the days overdue and the
\* scheduled amount, exactly when the loan being returned is at least one day
\* past its due date; a return on or before the due date answers "No late
\* fees owed".
C15_ReturnReportsFeeIffOverdue ==
    [][(res'.op = "return" /\ res'.ok) =>
          LET due == PricedLoan(res'.patron_id, res'.book_id).due_date
          IN IF now > due
             THEN /\ res'.msg = "Return processed. Late by day(s). Fee due:"
                  /\ res'.days_overdue = now - due
                  /\ res'.fee_amount = ScheduleFee(now - due)
                  /\ res'.fee_amount > 0
             ELSE /\ res'.msg = "Return processed. No late fees owed."
                  /\ res'.fee_amount = 0]_vars

C15_Witness ==
    /\ res.op = "return" /\ res.ok
    /\ res.msg = "Return processed. Late by day(s). Fee due:"
    /\ res.days_overdue = 1 /\ res.fee_amount = 50

C16_Remaining(patron_id) == get_patron_status_report(patron_id).remaining_allowance

\* C16: the report of a patron without active loans gives remaining_allowance
\* 5, and every successful borrow lowers the patron's reported
\* remaining_allowance by exactly 1.
C16_AllowanceDropsByOne ==
    [][/\ \A p \in ValidPatrons :
              get_patron_borrow_count(p) = 0 => C16_Remaining(p) = 5
       /\ \A p \in ValidPatrons :
              (res'.op = "borrow" /\ res'.ok /\ res'.patron_id = p) =>
                  C16_Remaining(p)' = C16_Remaining(p) - 1]_vars

\* the rows of the patron's active loans
C17_ActiveRows(patron_id) ==
    {i \in RecordIndexes : /\ borrow_records[i].patron_id = patron_id
                           /\ borrow_records[i].return_date = NULL}

\* C17: for a valid patron the report's next_due_date is the minimum due date
\* over the patron's active loans (None without loans), overdue_count is the
\* number of active loans flagged overdue, and borrowed_books has one entry
\* per active loan.
C17_ReportAggregates ==
    \A p \in ValidPatrons :
        LET report == get_patron_status_report(p)
            rows == C17_ActiveRows(p)
        IN /\ report.status = "OK"
           /\ report.next_due_date.some = (rows # {})
           /\ rows # {} =>
                  /\ \E i \in rows :
                         report.next_due_date.val = borrow_records[i].due_date
                  /\ \A i \in rows :
                         report.next_due_date.val <= borrow_records[i].due_date
           /\ report.overdue_count =
                  Cardinality({i \in rows : now > borrow_records[i].due_date})
           /\ report.overdue_count =
                  Cardinality({k \in 1..Len(report.borrowed_books) :
                                  report.borrowed_books[k].is_overdue})
           /\ Len(report.borrowed_books) = Cardinality(rows)
           /\ report.borrowed_count = Cardinality(rows)
           /\ \A i \in rows : \E k \in 1..Len(report.borrowed_books) :
                  /\ report.borrowed_books[k].book_id = borrow_records[i].book_id
                  /\ report.borrowed_books[k].due_date = borrow_records[i].due_date

\* a report of two loans, the earlier one overdue, was given
C17_Witness ==
    /\ res.op = "report" /\ res.status = "OK"
    /\ res = [res EXCEPT !.borrowed_count = 2, !.overdue_count = 1]
    /\ res.next_due_date = [some |-> TRUE, val |-> LOAN_DAYS]
    /\ Len(res.borrowed_books) = 2
    /\ res.borrowed_books[2].due_date > LOAN_DAYS
    /\ get_patron_status_report(res.patron_id).next_due_date = res.next_due_date

\* a str without any character other than the space
C18_Blank(search_term) ==
    search_term.is_str /\ \A i \in 1..Len(search_term.val) : search_term.val[i] = " "

\* C18: a search with an empty or whitespace-only term returns the empty list,
\* whatever the search type, and makes no store call.
C18_BlankTermFindsNothing ==
    (res.op = "search" /\ C18_Blank(res.search_term)) =>
        res.results = <<>> /\ res.store_calls = 0

\* a whitespace-only term was searched for in a catalog with books
C18_Witness ==
    /\ res.op = "search" /\ res.search_term = StrArg(Str(3, " "))
    /\ res.search_type = StrArg(T_TITLE)
    /\ Len(books) > 0 /\ res.results = <<>>

\* C19 as stated: a search whose type is not one of the four strings title,
\* author, isbn and all returns what the same search with type all returns.
C19_UnknownTypeIsAll ==
    (res.op = "search" /\ res.search_type \notin {StrArg(t) : t \in AllowedTypes}) =>
        res.results = search_books_in_catalog(res.search_term, StrArg(T_ALL))

\* the type is one of the four strings up to the case of its letters
C19_Recognized(search_type) ==
    /\ search_type.is_str
    /\ \E t \in AllowedTypes :
           /\ Len(t) = Len(search_type.val)
           /\ \A i \in 1..Len(t) : LowerChar(search_type.val[i]) = t[i]

\* C19 as amended: a search whose type, lower-cased, is not one of title,
\* author, isbn and all (an empty or absent type included) returns what the
\* same search with type all returns; a type that is one of the four up to
\* letter case is taken as that type.
C19_UnknownTypeIsAllUpToCase ==
    res.op = "search" =>
        IF C19_Recognized(res.search_type)
        THEN res.results =
                 search_books_in_catalog(res.search_term,
                                         StrArg(Lower(res.search_type.val)))
        ELSE res.results = search_books_in_catalog(res.search_term, StrArg(T_ALL))

\* an unknown type found books that a title search does not find
C19_Witness ==
    /\ res.op = "search" /\ ~C19_Recognized(res.search_type)
    /\ Len(res.search_type.val) > 3
    /\ Len(res.results) > 0
    /\ res.results # search_books_in_catalog(res.search_term, StrArg(T_TITLE))

\* a string without its hyphens and spaces
C20_Bare(s) == SelectSeq(s, LAMBDA c : c \notin {"-", " "})

\* the rows of the books whose ISBN equals the term up to hyphens and spaces
C20_Hits(term) == {i \in BookIndexes : C20_Bare(books[i].isbn) = C20_Bare(term)}

\* the last search was an isbn search for a term that is not blank
C20_IsbnSearch ==
    /\ res.op = "search" /\ res.search_type = StrArg(T_ISBN)
    /\ res.search_term.is_str /\ ~C18_Blank(res.search_term)

\* the results are the books of the rows in hits, each once
C20_ResultsAre(hits) ==
    /\ Len(res.results) = Cardinality(hits)
    /\ \A i \in hits : \E k \in 1..Len(res.results) : res.results[k] = books[i]
    /\ \A k \in 1..Len(res.results) : \E i \in hits : res.results[k] = books[i]

C22_ActiveRows(patron_id, book_id) ==
    {i \in RecordIndexes : /\ borrow_records[i].patron_id = patron_id
                           /\ borrow_records[i].book_id = book_id
                           /\ borrow_records[i].return_date = NULL}

\* C22: in every state reached through borrows and returns each (patron, book)
\* pair has at most one active borrow record.
C22_AtMostOneActiveLoanPerPair ==
    \A p \in Patrons, b \in BookIds : Cardinality(C22_ActiveRows(p, b)) <= 1

\* C23: neither borrow nor return undoes its first write when its second
\* fails. A borrow whose availability update fails after the insert returns
\* the database-error failure, the new active record stays on file and
\* available_copies is not lowered; a return whose availability update fails
\* after the loan was closed returns the same failure, the loan stays closed
\* and available_copies is not raised.
C23_NoRollback ==
    [][/\ (/\ res'.op = "borrow"
           /\ SixDigits(res'.patron_id)
           /\ res'.book_id \in BookIndexes
           /\ books[res'.book_id].available_copies > 0
           /\ ActiveLoansOf(res'.patron_id) <= 5
           /\ res'.insert_ok /\ ~res'.update_ok)
          => /\ ~res'.ok
             /\ res'.msg = "Database error occurred while updating book availability."
             /\ books' = books
             /\ borrow_records' =
                    Append(borrow_records,
                           [patron_id |-> res'.patron_id, book_id |-> res'.book_id,
                            borrow_date |-> now, due_date |-> now + 14,
                            return_date |-> NULL])
       /\ (/\ res'.op = "return"
           /\ res'.book_id \in BookIndexes
           /\ OnLoanTo(res'.patron_id, res'.book_id)
           /\ ~res'.update_ok)
          => /\ ~res'.ok
             /\ res'.msg = "Database error occurred while updating book availability."
             /\ books' = books
             /\ Len(borrow_records') = Len(borrow_records)
             /\ \A i \in RecordIndexes :
                    IF /\ borrow_records[i].patron_id = res'.patron_id
                       /\ borrow_records[i].book_id = res'.book_id
                    THEN /\ borrow_records'[i].return_date # NULL
                         /\ borrow_records'[i].return_date =
                                IF borrow_records[i].return_date = NULL
                                THEN now ELSE borrow_records[i].return_date
                    ELSE borrow_records'[i] = borrow_records[i]]_vars

\* a return failed on its availability update: the loan is closed, the copy
\* is not back
C23_Witness ==
    /\ res.op = "return" /\ ~res.ok /\ ~res.update_ok
    /\ ~OnLoanTo(res.patron_id, res.book_id)
    /\ \E i \in RecordIndexes : /\ borrow_records[i].patron_id = res.patron_id
                                 /\ borrow_records[i].book_id = res.book_id
    /\ books[res.book_id].available_copies = res.seen_available
    /\ books[res.book_id].available_copies < books[res.book_id].total_copies

\* the books an all search for the term of the last search returns
C24_AllResults == search_books_in_catalog(res.search_term, StrArg(T_ALL))

C24_InAll(book) == \E k \in 1..Len(C24_AllResults) : C24_AllResults[k] = book

C25_OnLoan(book_id) ==
    Cardinality({i \in RecordIndexes : /\ borrow_records[i].book_id = book_id
                                       /\ borrow_records[i].return_date = NULL})

\* C25: while every store call succeeds, each book's available_copies plus
\* the number of its active borrow records equals its total_copies.
C25_CopiesConserved ==
    ~store_failed =>
        \A i \in BookIndexes :
            books[i].available_copies + C25_OnLoan(books[i].id) = books[i].total_copies

\* C26: once a return of (patron, book) has succeeded, the pair has no active
\* loan until that patron borrows the book again, and as long as it has none
\* every pay_late_fees for the pair fails with "No late fees to pay" without a
\* gateway call, whatever fee the return reported.
C26_NoPaymentAfterReturn ==
    [][/\ \A p \in ValidPatrons, b \in BookIds :
              (res'.op = "return" /\ res'.ok /\ res'.patron_id = p /\ res'.book_id = b)
                  => ~OnLoanTo(p, b)'
       /\ \A p \in ValidPatrons, b \in BookIds :
              (~OnLoanTo(p, b) /\ OnLoanTo(p, b)') =>
                  /\ res'.op = "borrow" /\ res'.ok
                  /\ res'.patron_id = p /\ res'.book_id = b
       /\ (/\ res'.op = "pay"
           /\ SixDigits(res'.patron_id)
           /\ ~OnLoanTo(res'.patron_id, res'.book_id))
          => /\ ~res'.ok
             /\ res'.msg = "No late fees to pay for this book."
             /\ res'.gateway_calls = 0
             /\ ~res'.txn.some]_vars

\* a payment was refused for a loan that had been returned late
C26_Witness ==
    /\ res.op = "pay" /\ ~res.ok /\ res.gateway_calls = 0
    /\ res.msg = "No late fees to pay for this book."
    /\ ~OnLoanTo(res.patron_id, res.book_id)
    /\ \E i \in RecordIndexes :
           /\ borrow_records[i].patron_id = res.patron_id
           /\ borrow_records[i].book_id = res.book_id
           /\ borrow_records[i].return_date # NULL
           /\ borrow_records[i].return_date > borrow_records[i].due_date

\* C27: when pay_late_fees reaches the gateway it calls process_payment once,
\* with the patron id, the calculator's fee for the pair, which is above 0 and
\* at most 15.00, and the book's title; it changes no book and no borrow
\* record, so the fee of the pair is the same after the call.
C27_GatewayCalledOnceWithFee ==
    [][\A p \in Patrons, b \in BookIds :
          (res'.op = "pay" /\ res'.patron_id = p /\ res'.book_id = b) =>
              /\ books' = books
              /\ borrow_records' = borrow_records
              /\ calculate_late_fee_for_book(p, b)' = calculate_late_fee_for_book(p, b)
              /\ res'.gateway_calls \in {0, 1}
              /\ res'.gateway_calls = 1 =>
                     /\ SixDigits(p) /\ OnLoanTo(p, b)
                     /\ res'.gateway_patron = p
                     /\ res'.gateway_amount = calculate_late_fee_for_book(p, b).fee_amount
                     /\ res'.gateway_amount =
                            ScheduleFee(now - PricedLoan(p, b).due_date)
                     /\ 0 < res'.gateway_amount /\ res'.gateway_amount <= 1500
                     /\ res'.gateway_desc = books[b].title]_vars

\* a fee of 4.50 was sent to the gateway and accepted
C27_Witness ==
    /\ res.op = "pay" /\ res.ok /\ res.gateway_calls = 1
    /\ res.gateway_amount = 450 /\ res.days_overdue = 8
    /\ res.gateway_patron = res.patron_id
    /\ res.gateway_desc = TITLE_1
    /\ OnLoanTo(res.patron_id, res.book_id)

====
